---- MODULE Spec2Model ----
(***************************************************************************)
(* semver-taggr: the run of main (src/src/main.rs) on a repository, and    *)
(* its pure parts split_tag_semver, semver_bump and the tag format.        *)
(*                                                                         *)
(* Strings are sequences of characters, a character being a one-element    *)
(* TLA+ string.  A u32 is a pair of 16-bit limbs (hi, lo) standing for     *)
(* hi * 2^16 + lo, so that the whole 32-bit range, its overflow and its    *)
(* wrap-around are exact.                                                  *)
(***************************************************************************)
EXTENDS Integers, Sequences, FiniteSets, TLC

VARIABLES
    pc,               \* position of main: see the actions
    force,            \* cli.force
    branch,           \* shorthand of HEAD (NoShorthand: it has none)
    head_ok,          \* repo.head() resolves
    head,             \* the commit HEAD points to
    tags,             \* the repository's tags: name -> commit
    tags0,            \* the repository's tags when the run started
    last_tag,         \* main's last_tag
    tag_prefix, major, minor, patch, tag_suffix,   \* main's locals
    bump,             \* main's bump
    new_tag,          \* main's new_tag
    ans,              \* create_new_tag's ans
    ret,              \* what create_new_tag returned
    trail             \* what the run did to its collaborators, in order

vars == <<pc, force, branch, head_ok, head, tags, tags0, last_tag,
          tag_prefix, major, minor, patch, tag_suffix, bump, new_tag, ans,
          ret, trail>>

-----------------------------------------------------------------------------
(* Bounds *)

\* Longest tag of the exhaustive tag set of SplitSpec.
MaxLen == 6
\* Commits of the (linear) history: 1 .. MaxCommit.
MaxCommit == 2
\* Most tags a repository starts with.
MaxTags == 2
\* BumpSpec draws the small version numbers from 0 .. MaxSmall.
MaxSmall == 2

-----------------------------------------------------------------------------
(* Characters and strings *)

AsciiDigits == <<"0", "1", "2", "3", "4", "5", "6", "7", "8", "9">>

AsciiDigitSet == {AsciiDigits[n] : n \in 1..10}

IsAsciiDigit(c) == c \in AsciiDigitSet

\* A decimal digit outside ASCII (ARABIC-INDIC DIGIT THREE), as one character.
UnicodeDigit == "U+0663"

\* The regex class \d: the regex crate's \d is Unicode-aware (\p{Nd}).
IsDigit(c) == IsAsciiDigit(c) \/ c = UnicodeDigit

\* char::to_digit(10) of an ASCII digit.
DigitVal(c) == (CHOOSE n \in 1..10 : AsciiDigits[n] = c) - 1

Max(S) == CHOOSE x \in S : \A y \in S : y <= x

\* Where the dots of s are.
DotPositions(s) == {i \in 1..Len(s) : s[i] = "."}

-----------------------------------------------------------------------------
(* u32 *)

Limb == 2^16

U32(hi, lo) == [hi |-> hi, lo |-> lo]

U32Zero == U32(0, 0)

U32Max == U32(Limb - 1, Limb - 1)

\* Option and Result values, and Panic for a call that panicked; Val is the
\* value of a Some or an Ok.
None == <<"None">>
Some(x) == <<"Some", x>>
Ok(v) == <<"Ok", v>>
Err(e) == <<"Err", e>>
Panic == <<"Panic">>
IsSome(o) == o[1] = "Some"
IsNone(o) == o[1] = "None"
IsOk(r) == r[1] = "Ok"
IsPanic(r) == r[1] = "Panic"
Val(o) == o[2]

\* u32::checked_add(x, n) for a small n.
checked_add(x, n) ==
    LET t  == x.lo + n
        hi == x.hi + (t \div Limb)
    IN  IF hi >= Limb THEN None ELSE Some(U32(hi, t % Limb))

\* u32::wrapping_add(x, n) for a small n.
wrapping_add(x, n) ==
    LET t == x.lo + n
    IN  U32((x.hi + (t \div Limb)) % Limb, t % Limb)

\* u32::checked_mul(x, 10).
checked_mul10(x) ==
    LET t  == x.lo * 10
        hi == x.hi * 10 + (t \div Limb)
    IN  IF hi >= Limb THEN None ELSE Some(U32(hi, t % Limb))

\* x / 10 and x % 10.
Div10(x) ==
    LET t == (x.hi % 10) * Limb + x.lo
    IN  U32(x.hi \div 10, t \div 10)

Mod10(x) == ((x.hi % 10) * Limb + x.lo) % 10

\* Display of a u32: its decimal digits, no leading zeros.
RECURSIVE ToDec(_)
ToDec(x) ==
    IF x.hi = 0 /\ x.lo < 10
    THEN <<AsciiDigits[x.lo + 1]>>
    ELSE Append(ToDec(Div10(x)), AsciiDigits[Mod10(x) + 1])

\* str::parse::<u32> from character i on: digit by digit, checked multiply
\* and add; a character that is no ASCII digit, or a value beyond u32, is an
\* Err.
RECURSIVE ParseFrom(_, _, _)
ParseFrom(s, i, acc) ==
    IF i > Len(s) THEN Ok(acc)
    ELSE IF ~IsAsciiDigit(s[i]) THEN Err("InvalidDigit")
    ELSE LET m == checked_mul10(acc)
         IN  IF ~IsSome(m) THEN Err("PosOverflow")
             ELSE LET a == checked_add(Val(m), DigitVal(s[i]))
                  IN  IF ~IsSome(a) THEN Err("PosOverflow")
                      ELSE ParseFrom(s, i + 1, Val(a))

parse_u32(s) == IF s = <<>> THEN Err("Empty") ELSE ParseFrom(s, 1, U32Zero)

-----------------------------------------------------------------------------
(* split_tag_semver *)

\* The last index of the run of \d characters that starts at i (i - 1 when
\* there is none): what a greedy \d+ takes.
RECURSIVE DigitRunEnd(_, _)
DigitRunEnd(s, i) ==
    IF i <= Len(s) /\ IsDigit(s[i]) THEN DigitRunEnd(s, i + 1) ELSE i - 1

\* The ends e1, e2, e3 of the three \d+ groups, when a dot follows each of
\* the first two; else <<>>.
TripleEnds(s, k, e1, e2, e3) ==
    IF /\ e1 >= k + 1
       /\ e1 + 1 <= Len(s) /\ s[e1 + 1] = "."
       /\ e2 >= e1 + 2
       /\ e2 + 1 <= Len(s) /\ s[e2 + 1] = "."
       /\ e3 >= e2 + 2
    THEN <<e1, e2, e3>>
    ELSE <<>>

TripleFrom2(s, k, e1, e2) == TripleEnds(s, k, e1, e2, DigitRunEnd(s, e2 + 2))

TripleFrom1(s, k, e1) == TripleFrom2(s, k, e1, DigitRunEnd(s, e1 + 2))

\* (\d+)\.(\d+)\.(\d+) matched right after the first k characters: the ends
\* of the three groups, or <<>>.  Each \d+ is followed by a character that is
\* no digit (a dot, or whatever (.*) takes), so backtracking into a shorter
\* run never helps and the greedy run is the only candidate.
TripleAt(s, k) == TripleFrom1(s, k, DigitRunEnd(s, k + 1))

\* The prefix lengths (.*) may take so that the rest of SEMVER_REGEX matches.
PrefixLengths(s) == {k \in 0..Len(s) : TripleAt(s, k) # <<>>}

\* The five groups, (.*) having taken k characters and the \d+ ending at e.
Groups(s, k, e) ==
    <<SubSeq(s, 1, k),
      SubSeq(s, k + 1, e[1]),
      SubSeq(s, e[1] + 2, e[2]),
      SubSeq(s, e[2] + 2, e[3]),
      SubSeq(s, e[3] + 1, Len(s))>>

GroupsAfter(s, k) == Groups(s, k, TripleAt(s, k))

\* (.*) is greedy: of the prefix lengths ks that let the rest match, the
\* longest.
GreedyMatch(s, ks) == IF ks = {} THEN None ELSE Some(GroupsAfter(s, Max(ks)))

\* Regex::captures of SEMVER_REGEX: None, or the five groups.  No character
\* of a tag is a line break, so (.*) takes any of them and a match, when
\* there is one, starts at the first character.
captures(s) == GreedyMatch(s, PrefixLengths(s))

\* main.rs:94-101: the tuple, each unwrap panicking on an Err.
SomeTuple(prefix, ma, mi, pa, suffix) ==
    IF IsOk(ma) /\ IsOk(mi) /\ IsOk(pa)
    THEN Some(<<prefix, Val(ma), Val(mi), Val(pa), suffix>>)
    ELSE Panic

ParseGroups(g) ==
    SomeTuple(g[1], parse_u32(g[2]), parse_u32(g[3]), parse_u32(g[4]), g[5])

IfCaptures(c) == IF IsSome(c) THEN ParseGroups(Val(c)) ELSE None

\* split_tag_semver: None, Some(<<prefix, major, minor, patch, suffix>>), or
\* Panic when an unwrap of parse::<u32> fails.
split_tag_semver(tag) == IfCaptures(captures(tag))

-----------------------------------------------------------------------------
(* semver_bump and the tag format *)

Type == {"Major", "Minor", "Patch"}

\* `*x += 1`: the outcomes the build can produce.  On overflow the debug
\* profile (overflow checks on) panics and the release profile (overflow
\* checks off) wraps.
AddAssignOne(x) ==
    IF IsSome(checked_add(x, 1))
    THEN {checked_add(x, 1)}
    ELSE {Panic, Some(wrapping_add(x, 1))}

\* semver_bump with the Minor arm leaving patch as it was.
semver_bump_KeepsPatch(ma, mi, pa, b) ==
    CASE b = "Major" ->
            {IF IsPanic(r) THEN Panic ELSE Some(<<Val(r), U32Zero, U32Zero>>) :
                r \in AddAssignOne(ma)}
      [] b = "Minor" ->
            {IF IsPanic(r) THEN Panic ELSE Some(<<ma, Val(r), pa>>) :
                r \in AddAssignOne(mi)}
      [] b = "Patch" ->
            {IF IsPanic(r) THEN Panic ELSE Some(<<ma, mi, Val(r)>>) :
                r \in AddAssignOne(pa)}

\* semver_bump: its outcomes, each Some(<<major, minor, patch>>) as it leaves
\* them, or Panic.
semver_bump(ma, mi, pa, b) ==
    CASE b = "Major" ->
            {IF IsPanic(r) THEN Panic ELSE Some(<<Val(r), U32Zero, U32Zero>>) :
                r \in AddAssignOne(ma)}
      [] b = "Minor" ->
            {IF IsPanic(r) THEN Panic ELSE Some(<<ma, Val(r), U32Zero>>) :
                r \in AddAssignOne(mi)}
      [] b = "Patch" ->
            {IF IsPanic(r) THEN Panic ELSE Some(<<ma, mi, Val(r)>>) :
                r \in AddAssignOne(pa)}

\* The format with patch written in the place of minor.
FormatTag_PatchTwice(prefix, ma, mi, pa, suffix) ==
    prefix \o ToDec(ma) \o <<".">> \o ToDec(pa) \o <<".">> \o ToDec(pa) \o suffix

\* format!("{}{}.{}.{}{}", tag_prefix, major, minor, patch, tag_suffix)
FormatTag(prefix, ma, mi, pa, suffix) ==
    prefix \o ToDec(ma) \o <<".">> \o ToDec(mi) \o <<".">> \o ToDec(pa) \o suffix

-----------------------------------------------------------------------------
(* The repository *)

Commits == 1..MaxCommit

\* head.shorthand() is None.
NoShorthand == "<none>"

Branches == {"master", "main", "dev", NoShorthand}

\* The pattern of find_latest_semver_tag, "*[0-9]*.[0-9]*.[0-9]*", matched
\* against a whole tag name: [0-9] is one ASCII digit, * is anything.
GlobMatch(s) ==
    \E j, k \in DotPositions(s) :
        /\ \E i \in 1..(j - 1) : IsAsciiDigit(s[i])
        /\ j + 1 <= Len(s) /\ IsAsciiDigit(s[j + 1])
        /\ j + 1 < k
        /\ k + 1 <= Len(s) /\ IsAsciiDigit(s[k + 1])

\* The tags describe may name: those matching the pattern on a commit
\* reachable from HEAD (the history is linear: commit c reaches 1 .. c).
Candidates(repo_tags, at) ==
    {n \in DOMAIN repo_tags : GlobMatch(n) /\ repo_tags[n] <= at}

\* find_latest_semver_tag: the results repo.describe may give.  The nearest
\* candidate wins; between tags of one commit the choice is libgit2's.  With
\* no candidate, or no HEAD, describe fails: show_commit_oid_as_fallback is
\* false.
find_latest_semver_tag(repo_tags, at, resolves) ==
    LET cs == Candidates(repo_tags, at)
    IN  IF ~resolves \/ cs = {} THEN {Err("NotFound")}
        ELSE LET near == Max({repo_tags[n] : n \in cs})
             IN  {Ok(n) : n \in {m \in cs : repo_tags[m] = near}}

\* on_master_branch taking a HEAD without a shorthand for the master branch.
on_master_branch_NoShorthand(resolves, shorthand) ==
    resolves /\ shorthand \in {"master", "main", NoShorthand}

\* on_master_branch
on_master_branch(resolves, shorthand) ==
    IF resolves
    THEN IF shorthand # NoShorthand
         THEN IF shorthand = "master" \/ shorthand = "main" THEN TRUE ELSE FALSE
         ELSE FALSE
    ELSE FALSE

-----------------------------------------------------------------------------
(* The tags the specifications draw from *)

StrV == <<"v">>
Dot == <<".">>
Release == <<"r", "e", "l", "e", "a", "s", "e">>
U32MaxDec == <<"4", "2", "9", "4", "9", "6", "7", "2", "9", "5">>   \* u32::MAX
U32OverDec == <<"4", "2", "9", "4", "9", "6", "7", "2", "9", "6">>   \* u32::MAX + 1

Version(a, b, c) == a \o Dot \o b \o Dot \o c

\* The tag names of the repositories of Spec: v19.0.0, v1.2.4294967295,
\* v1.3.0, v1.4294967296.0, v1x.2.3 and release.
TagUniverse ==
    { StrV \o Version(<<"1", "9">>, <<"0">>, <<"0">>),
      StrV \o Version(<<"1">>, <<"2">>, U32MaxDec),
      StrV \o Version(<<"1">>, <<"3">>, <<"0">>),
      StrV \o Version(<<"1">>, U32OverDec, <<"0">>),
      <<"v", "1", "x">> \o Dot \o <<"2">> \o Dot \o <<"3">>,
      Release }

\* The initial repositories of Spec: at most MaxTags tags on the commits.
Repositories ==
    UNION {[N -> Commits] :
             N \in {S \in SUBSET TagUniverse : Cardinality(S) <= MaxTags}}

\* SplitSpec's tags: every string of at most MaxLen characters of Alphabet,
\* and the tags P + a.b.c + S made of the parts below.
Alphabet == {"v", ".", "0", "1", "9", UnicodeDigit}

Strings == UNION {[1..n -> Alphabet] : n \in 0..MaxLen}

Prefixes ==
    { <<>>, StrV, Release \o <<"-">>,
      <<"a", "-">> \o Version(<<"1">>, <<"0">>, <<"0">>) \o <<"-">> }

Suffixes == { <<>>, <<"-", "r", "c">>, <<"-", "b">>, <<".", "4">> }

Numbers ==
    { <<"0">>, <<"2">>, <<"9">>, <<"1", "2">>, <<"1", "9">>, <<"0", "7">>,
      U32MaxDec, U32OverDec }

Composed ==
    { p \o Version(a, b, c) \o x :
        p \in Prefixes, a \in Numbers, b \in Numbers, c \in Numbers,
        x \in Suffixes }

SplitInputs == Strings \cup Composed

\* BumpSpec's version numbers: the small ones, those around a limb's carry
\* and those at the end of the u32 range.
BumpSamples ==
    {U32(0, n) : n \in 0..MaxSmall}
        \cup {U32(0, Limb - 1), U32(1, 0), U32(Limb - 1, Limb - 2), U32Max}

-----------------------------------------------------------------------------
(* main *)

\* The locals of main before it sets them.
Unset ==
    /\ last_tag = <<>>
    /\ tag_prefix = <<>> /\ tag_suffix = <<>>
    /\ major = U32Zero /\ minor = U32Zero /\ patch = U32Zero
    /\ bump = "none" /\ new_tag = <<>>
    /\ ans = "none" /\ ret = "none"
    /\ trail = <<>>

\* main.rs:179-196: the arguments are parsed and the repository is open.
Init ==
    /\ pc = "start"
    /\ force \in BOOLEAN
    /\ head_ok \in BOOLEAN
    /\ branch \in Branches
    /\ head \in Commits
    /\ tags \in Repositories
    /\ tags0 = tags
    /\ Unset

\* main.rs:198-201
BranchGuard ==
    /\ pc = "start"
    /\ pc' = IF ~force /\ ~on_master_branch(head_ok, branch)
             THEN "returned" ELSE "locate"
    /\ UNCHANGED <<force, branch, head_ok, head, tags, tags0, last_tag,
                   tag_prefix, major, minor, patch, tag_suffix, bump,
                   new_tag, ans, ret, trail>>

\* main.rs:203: expect panics on an Err.
Locate ==
    /\ pc = "locate"
    /\ \E r \in find_latest_semver_tag(tags, head, head_ok) :
          IF IsOk(r)
          THEN pc' = "split" /\ last_tag' = Val(r)
          ELSE pc' = "panicked" /\ last_tag' = last_tag
    /\ trail' = Append(trail, "describe")
    /\ UNCHANGED <<force, branch, head_ok, head, tags, tags0, tag_prefix,
                   major, minor, patch, tag_suffix, bump, new_tag, ans, ret>>

\* SplitTag going on with version 0.0.0 when the tag holds none.
SplitTag_DefaultVersion ==
    /\ pc = "split"
    /\ \E r \in {split_tag_semver(last_tag)} :
           IF IsSome(r)
           THEN /\ pc' = "prompt"
                /\ tag_prefix' = Val(r)[1]
                /\ major' = Val(r)[2]
                /\ minor' = Val(r)[3]
                /\ patch' = Val(r)[4]
                /\ tag_suffix' = Val(r)[5]
           ELSE IF IsPanic(r)
           THEN /\ pc' = "panicked"
                /\ UNCHANGED <<tag_prefix, major, minor, patch, tag_suffix>>
           ELSE /\ pc' = "prompt"
                /\ tag_prefix' = last_tag
                /\ UNCHANGED <<major, minor, patch, tag_suffix>>
    /\ UNCHANGED <<force, branch, head_ok, head, tags, tags0, last_tag, bump,
                   new_tag, ans, ret, trail>>

\* main.rs:205-208: unwrap_or_else panics on None.
SplitTag ==
    /\ pc = "split"
    /\ \E r \in {split_tag_semver(last_tag)} :
           IF IsSome(r)
           THEN /\ pc' = "prompt"
                /\ tag_prefix' = Val(r)[1]
                /\ major' = Val(r)[2]
                /\ minor' = Val(r)[3]
                /\ patch' = Val(r)[4]
                /\ tag_suffix' = Val(r)[5]
           ELSE /\ pc' = "panicked"
                /\ UNCHANGED <<tag_prefix, major, minor, patch, tag_suffix>>
    /\ UNCHANGED <<force, branch, head_ok, head, tags, tags0, last_tag, bump,
                   new_tag, ans, ret, trail>>

\* main.rs:210-214: the user picks a Type, or leaves the prompt, on which
\* unwrap panics.
PromptBump ==
    /\ pc = "prompt"
    /\ \E choice \in Type \cup {"cancel"} :
          IF choice \in Type
          THEN pc' = "bump" /\ bump' = choice
          ELSE pc' = "panicked" /\ bump' = bump
    /\ trail' = Append(trail, "select")
    /\ UNCHANGED <<force, branch, head_ok, head, tags, tags0, last_tag,
                   tag_prefix, major, minor, patch, tag_suffix, new_tag, ans,
                   ret>>

\* main.rs:216
SemverBump ==
    /\ pc = "bump"
    /\ \E r \in semver_bump(major, minor, patch, bump) :
           IF IsSome(r)
           THEN /\ pc' = "format"
                /\ major' = Val(r)[1]
                /\ minor' = Val(r)[2]
                /\ patch' = Val(r)[3]
           ELSE /\ pc' = "panicked"
                /\ UNCHANGED <<major, minor, patch>>
    /\ UNCHANGED <<force, branch, head_ok, head, tags, tags0, last_tag,
                   tag_prefix, tag_suffix, bump, new_tag, ans, ret, trail>>

\* main.rs:217 and the call of create_new_tag at 219
Format ==
    /\ pc = "format"
    /\ new_tag' = FormatTag(tag_prefix, major, minor, patch, tag_suffix)
    /\ pc' = "create"
    /\ UNCHANGED <<force, branch, head_ok, head, tags, tags0, last_tag,
                   tag_prefix, major, minor, patch, tag_suffix, bump, ans,
                   ret, trail>>

\* Confirm with the test of the answer inverted.
Confirm_Inverted ==
    /\ pc = "create"
    /\ \E answer \in {"yes", "no", "cancel"} :
          /\ ans' = answer
          /\ pc' = CASE answer = "no" -> "tagging"
                     [] answer = "yes" -> "done"
                     [] answer = "cancel" -> "panicked"
          /\ ret' = IF answer = "yes" THEN "Ok(false)" ELSE ret
    /\ trail' = Append(trail, "confirm")
    /\ UNCHANGED <<force, branch, head_ok, head, tags, tags0, last_tag,
                   tag_prefix, major, minor, patch, tag_suffix, bump,
                   new_tag>>

\* create_new_tag, main.rs:125-133: the confirmation; leaving the prompt
\* panics, "no" returns Ok(false).
Confirm ==
    /\ pc = "create"
    /\ \E answer \in {"yes", "no", "cancel"} :
          /\ ans' = answer
          /\ pc' = CASE answer = "yes" -> "tagging"
                     [] answer = "no" -> "done"
                     [] answer = "cancel" -> "panicked"
          /\ ret' = IF answer = "no" THEN "Ok(false)" ELSE ret
    /\ trail' = Append(trail, "confirm")
    /\ UNCHANGED <<force, branch, head_ok, head, tags, tags0, last_tag,
                   tag_prefix, major, minor, patch, tag_suffix, bump,
                   new_tag>>

\* CreateTag calling repo.tag with force = true: an existing tag is moved.
CreateTag_Force ==
    /\ pc = "tagging"
    /\ \E config_ok \in BOOLEAN :
          IF ~head_ok
          THEN /\ trail' = trail \o <<"head">>
               /\ ret' = "Err" /\ pc' = "panicked" /\ tags' = tags
          ELSE IF ~config_ok
          THEN /\ trail' = trail \o <<"head", "config">>
               /\ ret' = "Err" /\ pc' = "panicked" /\ tags' = tags
          ELSE /\ trail' = trail \o <<"head", "config", "tag">>
               /\ ret' = "Ok(true)" /\ pc' = "done"
               /\ tags' = [n \in DOMAIN tags \cup {new_tag} |->
                             IF n = new_tag THEN head ELSE tags[n]]
    /\ UNCHANGED <<force, branch, head_ok, head, tags0, last_tag, tag_prefix,
                   major, minor, patch, tag_suffix, bump, new_tag, ans>>

\* create_new_tag, main.rs:135-151, and expect at 219: HEAD is read and
\* peeled, then user.name and user.email are read, then the tag is created
\* with force = false, which fails on a name that exists; each step's Err
\* is returned by `?` and main's expect panics on it.
CreateTag ==
    /\ pc = "tagging"
    /\ \E config_ok \in BOOLEAN :
          IF ~head_ok
          THEN /\ trail' = trail \o <<"head">>
               /\ ret' = "Err" /\ pc' = "panicked" /\ tags' = tags
          ELSE IF ~config_ok
          THEN /\ trail' = trail \o <<"head", "config">>
               /\ ret' = "Err" /\ pc' = "panicked" /\ tags' = tags
          ELSE IF new_tag \in DOMAIN tags
          THEN /\ trail' = trail \o <<"head", "config", "tag">>
               /\ ret' = "Err" /\ pc' = "panicked" /\ tags' = tags
          ELSE /\ trail' = trail \o <<"head", "config", "tag">>
               /\ ret' = "Ok(true)" /\ pc' = "done"
               /\ tags' = [n \in DOMAIN tags \cup {new_tag} |->
                             IF n = new_tag THEN head ELSE tags[n]]
    /\ UNCHANGED <<force, branch, head_ok, head, tags0, last_tag, tag_prefix,
                   major, minor, patch, tag_suffix, bump, new_tag, ans>>

Next ==
    \/ BranchGuard
    \/ Locate
    \/ SplitTag
    \/ PromptBump
    \/ SemverBump
    \/ Format
    \/ Confirm
    \/ CreateTag

Spec == Init /\ [][Next]_vars

\* split_tag_semver on its own, applied to every tag of SplitInputs.
SplitInit ==
    /\ pc = "split"
    /\ force = FALSE /\ head_ok = TRUE /\ branch = "master" /\ head = 1
    /\ tags = <<>> /\ tags0 = <<>>
    /\ last_tag \in SplitInputs
    /\ tag_prefix = <<>> /\ tag_suffix = <<>>
    /\ major = U32Zero /\ minor = U32Zero /\ patch = U32Zero
    /\ bump = "none" /\ new_tag = <<>>
    /\ ans = "none" /\ ret = "none"
    /\ trail = <<>>

SplitNext == SplitTag

SplitSpec == SplitInit /\ [][SplitNext]_vars

\* semver_bump on its own, applied to every triple of BumpSamples.
BumpInit ==
    /\ pc = "prompt"
    /\ force = FALSE /\ head_ok = TRUE /\ branch = "master" /\ head = 1
    /\ tags = <<>> /\ tags0 = <<>>
    /\ last_tag = <<>>
    /\ tag_prefix = <<>> /\ tag_suffix = <<>>
    /\ major \in BumpSamples /\ minor \in BumpSamples /\ patch \in BumpSamples
    /\ bump = "none" /\ new_tag = <<>>
    /\ ans = "none" /\ ret = "none"
    /\ trail = <<>>

BumpNext == PromptBump \/ SemverBump

BumpSpec == BumpInit /\ [][BumpNext]_vars

-----------------------------------------------------------------------------
(* The claims *)

InTrail(e) == \E i \in 1..Len(trail) : trail[i] = e

\* y = x + 1, without overflow.
IsSuccessor(x, y) ==
    \/ x.lo < Limb - 1 /\ y = U32(x.hi, x.lo + 1)
    \/ x.lo = Limb - 1 /\ x.hi < Limb - 1 /\ y = U32(x.hi + 1, 0)

\* The component semver_bump increments.
Incremented ==
    CASE bump = "Major" -> major
      [] bump = "Minor" -> minor
      [] bump = "Patch" -> patch

\* C1: on a triple whose incremented component is not u32::MAX, semver_bump
\* follows the table: Major gives (major + 1, 0, 0), Minor gives
\* (major, minor + 1, 0), Patch gives (major, minor, patch + 1).
C1_BumpTable ==
    [][(pc = "bump" /\ Incremented # U32Max) =>
         /\ pc' = "format"
         /\ bump = "Major" =>
               IsSuccessor(major, major') /\ minor' = U32Zero /\ patch' = U32Zero
         /\ bump = "Minor" =>
               major' = major /\ IsSuccessor(minor, minor') /\ patch' = U32Zero
         /\ bump = "Patch" =>
               major' = major /\ minor' = minor /\ IsSuccessor(patch, patch')
      ]_vars

\* A Minor bump of (u32::MAX, 65535, 2) has run: the carry crosses the limbs,
\* major is kept and patch is reset.
C1_Witness ==
    /\ pc = "format" /\ bump = "Minor"
    /\ major = U32Max /\ minor = U32(1, 0) /\ patch = U32Zero

\* C5: when split_tag_semver returns Some((p, a, b, c, s)), parsing the
\* re-serialized p + a + "." + b + "." + c + s returns the same tuple.
C5_RoundTripStable ==
    pc = "prompt" =>
        split_tag_semver(FormatTag(tag_prefix, major, minor, patch, tag_suffix))
            = Some(<<tag_prefix, major, minor, patch, tag_suffix>>)

\* A tag with two triples and a leading zero has been split: it is not its
\* own re-serialization.
C5_Witness ==
    /\ pc = "prompt"
    /\ Cardinality(PrefixLengths(tag_prefix)) > 0
    /\ FormatTag(tag_prefix, major, minor, patch, tag_suffix) # last_tag

\* The decimal successor of a string of ASCII digits.
RECURSIVE DecSucc(_)
DecSucc(d) ==
    IF d = <<>> THEN <<"1">>
    ELSE LET last == d[Len(d)]
             init == SubSeq(d, 1, Len(d) - 1)
         IN  IF last = "9" THEN Append(DecSucc(init), "0")
             ELSE Append(init, AsciiDigits[DigitVal(last) + 2])

\* A decimal number written canonically: ASCII digits, no leading zero.
IsCanonical(d) ==
    /\ Len(d) >= 1
    /\ \A i \in 1..Len(d) : IsAsciiDigit(d[i])
    /\ Len(d) = 1 \/ d[1] # "0"

\* s holds an N.N.N pattern.
HasTriple(s) == PrefixLengths(s) # {}

\* The ways to read tag s as P + a.b.c + S with a, b, c canonical, P not
\* ending in a digit, S not starting with a digit or a dot, and no N.N.N
\* pattern in P or S: <<P, a, b, c, S>>.
Readings(s) ==
    { r \in { <<SubSeq(s, 1, q[1]), SubSeq(s, q[1] + 1, q[2] - 1),
                SubSeq(s, q[2] + 1, q[3] - 1), SubSeq(s, q[3] + 1, q[4]),
                SubSeq(s, q[4] + 1, Len(s))>> :
                q \in { x \in (0..Len(s)) \X DotPositions(s) \X DotPositions(s)
                                \X (1..Len(s)) :
                          x[1] + 1 < x[2] /\ x[2] + 1 < x[3] /\ x[3] < x[4] } } :
        /\ IsCanonical(r[2]) /\ IsCanonical(r[3]) /\ IsCanonical(r[4])
        /\ r[1] = <<>> \/ ~IsDigit(r[1][Len(r[1])])
        /\ r[5] = <<>> \/ (~IsDigit(r[5][1]) /\ r[5][1] # ".")
        /\ ~HasTriple(r[1]) /\ ~HasTriple(r[5]) }

\* The bump table on decimal numbers of any size.
DecBump(a, b, c, kind) ==
    CASE kind = "Major" -> Version(DecSucc(a), <<"0">>, <<"0">>)
      [] kind = "Minor" -> Version(a, DecSucc(b), <<"0">>)
      [] kind = "Patch" -> Version(a, b, DecSucc(c))

\* C2: for a latest tag P + a.b.c + S and every bump kind, the tag handed to
\* create_new_tag is P + a'.b'.c' + S, (a', b', c') being the bump table
\* applied to (a, b, c) as whole numbers.
C2_EndToEnd ==
    pc = "create" =>
        \A r \in Readings(last_tag) :
            new_tag = r[1] \o DecBump(r[2], r[3], r[4], bump) \o r[5]

\* C3: split_tag_semver of P + a.b.c + S, with a, b, c canonical numbers in
\* the u32 range, is (P, a, b, c, S).  (P and S are taken as in C2: without
\* that the string has several such readings.)
C3_ParseFormat ==
    pc # "split" =>
        \A r \in Readings(last_tag) :
            (IsOk(parse_u32(r[2])) /\ IsOk(parse_u32(r[3])) /\ IsOk(parse_u32(r[4])))
            => /\ pc = "prompt"
               /\ tag_prefix = r[1]
               /\ major = Val(parse_u32(r[2]))
               /\ minor = Val(parse_u32(r[3]))
               /\ patch = Val(parse_u32(r[4]))
               /\ tag_suffix = r[5]

\* Where the triples of s start: an N.N.N pattern that begins a run of digits.
TripleStarts(s) == {k \in PrefixLengths(s) : k = 0 \/ ~IsDigit(s[k])}

\* C4: of several N.N.N triples split_tag_semver takes the rightmost as the
\* version; what is before it is the prefix and what is after it the suffix,
\* both verbatim.
C4_RightmostTriple ==
    (pc = "prompt" /\ Cardinality(TripleStarts(last_tag)) > 1) =>
        LET k == Max(TripleStarts(last_tag))
            e == TripleAt(last_tag, k)
            a == parse_u32(SubSeq(last_tag, k + 1, e[1]))
        IN  /\ tag_prefix = SubSeq(last_tag, 1, k)
            /\ tag_suffix = SubSeq(last_tag, e[3] + 1, Len(last_tag))
            /\ IsOk(a) /\ major = Val(a)

\* A digit group of tag s that parse::<u32> rejects as too large.
HasOverflowingGroup(s) ==
    /\ IsSome(captures(s))
    /\ \E i \in 2..4 : parse_u32(Val(captures(s))[i]) = Err("PosOverflow")

\* The component of the latest tag that the chosen bump increments.
ParsedComponent ==
    LET t == Val(split_tag_semver(last_tag))
    IN  CASE bump = "Major" -> t[2]
          [] bump = "Minor" -> t[3]
          [] bump = "Patch" -> t[4]

\* C6: overflow is always fatal: when a digit group of the latest tag is
\* beyond u32, or the component to increment is u32::MAX, the run ends in a
\* fatal error before a new tag is made, and no tag is created.
C6_OverflowFatal ==
    /\ (last_tag # <<>> /\ HasOverflowingGroup(last_tag)) =>
           (pc \in {"split", "panicked"} /\ tags = tags0)
    /\ pc \in {"format", "create", "tagging", "done"} =>
           ParsedComponent # U32Max

\* find_latest_semver_tag fails in this run.
LocateFails ==
    \A r \in find_latest_semver_tag(tags0, head, head_ok) : ~IsOk(r)

\* split_tag_semver returns None on the tag that was found.
SplitNone == last_tag # <<>> /\ IsNone(split_tag_semver(last_tag))

\* C7: when find_latest_semver_tag fails or split_tag_semver returns None,
\* the run aborts before the bump prompt and before create_new_tag; the tags
\* are unchanged, and no commit id or default version stands in.
C7_FailFast ==
    \A fails \in {LocateFails}, none \in {SplitNone} :
        /\ fails =>
              /\ pc \in {"start", "returned", "locate", "panicked"}
              /\ last_tag = <<>>
        /\ none => pc \in {"split", "panicked"}
        /\ (fails \/ none) =>
              /\ ~InTrail("select") /\ ~InTrail("confirm") /\ ~InTrail("tag")
              /\ bump = "none" /\ new_tag = <<>>
              /\ tag_prefix = <<>> /\ major = U32Zero /\ minor = U32Zero
              /\ patch = U32Zero
              /\ tags = tags0

\* The run has panicked at the lookup, in a repository that holds a
\* version-shaped tag, on a commit HEAD does not reach.
C7_Witness ==
    /\ pc = "panicked" /\ InTrail("describe") /\ head_ok /\ last_tag = <<>>
    /\ \E n \in DOMAIN tags : GlobMatch(n) /\ tags[n] > head

\* C8: without force, on a branch that is neither master nor main (or with a
\* HEAD that does not resolve or has no shorthand), the run returns before
\* any tag lookup or prompt and creates no tag; with force the branch check
\* never ends the run.
C8_BranchGuard ==
    /\ (~force /\ ~(head_ok /\ branch \in {"master", "main"})) =>
          /\ pc \in {"start", "returned"}
          /\ trail = <<>> /\ last_tag = <<>>
          /\ tags = tags0
    /\ force => pc # "returned"

\* The run has returned at the guard on HEAD without a shorthand, in a
\* repository holding a tag the lookup would have found.
C8_Witness ==
    /\ pc = "returned" /\ head_ok /\ branch = NoShorthand
    /\ Candidates(tags, head) # {}

\* C9: create_new_tag creates the tag only after a "yes"; on "no" it returns
\* Ok(false) without reading HEAD or the configuration and without creating
\* a tag; it returns Ok(true) only when the tag was created on HEAD's commit.
C9_ConfirmGate ==
    /\ tags # tags0 => ans = "yes"
    /\ InTrail("tag") => ans = "yes"
    /\ ans = "no" =>
          /\ ret = "Ok(false)" /\ pc = "done"
          /\ ~InTrail("head") /\ ~InTrail("config") /\ ~InTrail("tag")
          /\ tags = tags0
    /\ ret = "Ok(false)" => ans = "no"
    /\ ret = "Ok(true)" =>
          /\ new_tag \notin DOMAIN tags0
          /\ new_tag \in DOMAIN tags /\ tags[new_tag] = head

\* create_new_tag has returned Ok(true) on a tag it created.
C9_Witness == ret = "Ok(true)" /\ ans = "yes" /\ tags # tags0

\* C10: a run adds at most one tag, named new_tag and on HEAD's commit, and
\* never removes or moves a tag that existed; when new_tag exists already
\* the creation fails and the tag keeps its target.
C10_TagFrame ==
    /\ \A n \in DOMAIN tags0 : n \in DOMAIN tags /\ tags[n] = tags0[n]
    /\ \A n \in DOMAIN tags \ DOMAIN tags0 : n = new_tag /\ tags[n] = head
    /\ Cardinality(DOMAIN tags \ DOMAIN tags0) <= 1
    /\ (InTrail("tag") /\ new_tag \in DOMAIN tags0) =>
          (ret = "Err" /\ pc = "panicked" /\ tags = tags0)

\* The creation was tried on a name that existed, on another commit than HEAD.
C10_Witness ==
    /\ InTrail("tag") /\ new_tag \in DOMAIN tags0
    /\ tags0[new_tag] # head

====
